---------------------------- MODULE Spec2Model ----------------------------
(***************************************************************************)
(* A model of src/functions.py: the GeoJSON station extractor              *)
(* (load_mrt_data_from_geojson), the nearest-station locator and map       *)
(* builder (get_interactive_map_and_mrt_geojson) and the angle converter   *)
(* (dms_to_dd).                                                            *)
(*                                                                         *)
(* Numbers.  Coordinates are integers in hundredths of a degree            *)
(* (1.30 deg = 130).  A point that is a mean of such coordinates is kept   *)
(* as an exact fraction (lat/den, lon/den) in lowest terms, so the         *)
(* arithmetic of the model is exact; the rounding of IEEE doubles is not   *)
(* modelled.  Distances are integers in metres; the text of the summary    *)
(* carries the distance in hundredths of a kilometre (the ".2f" format).   *)
(* An angle in decimal degrees is an integer number of arc-seconds         *)
(* (degrees * 3600).                                                       *)
(*                                                                         *)
(* Text.  A Description is a sequence of tokens: the header of the         *)
(* STATION_NA row, the closing tag of a cell, a newline, a space and       *)
(* words.  The regular expression, strip() and the substring test work on  *)
(* these tokens.                                                           *)
(***************************************************************************)
EXTENDS Integers, Sequences, FiniteSets, TLC

VARIABLES
    \* load_mrt_data_from_geojson
    source,                 \* what open()/json.load() find at geojson_path
    feature_idx,            \* position of the for loop of line 22
    mrt_exits,              \* the list built by the loop
    skip_log,               \* the features reported by the print of line 45
    load_result,            \* the returned list
    load_exception,         \* the exception that left the function, "" if none
    pcLoad,
    \* get_interactive_map_and_mrt_geojson
    locations,              \* argument
    mrt_exits_list,         \* argument
    center_point,
    station_idx,            \* position of the for loop of line 83
    min_distance,
    nearest_station_name,
    nearest_station_coords,
    result_string,
    m,                      \* the folium map under construction
    map_result,             \* the returned pair
    map_exception,          \* the exception that left the function, "" if none
    pcMap,
    \* dms_to_dd
    dms,                    \* the arguments
    decimal_degrees,
    dms_result,
    pcDms

loadVars == <<source, feature_idx, mrt_exits, skip_log, load_result,
              load_exception, pcLoad>>
mapVars == <<locations, mrt_exits_list, center_point, station_idx,
             min_distance, nearest_station_name, nearest_station_coords,
             result_string, m, map_result, map_exception, pcMap>>
dmsVars == <<dms, decimal_degrees, dms_result, pcDms>>
vars == <<loadVars, mapVars, dmsVars>>

---------------------------------------------------------------------------
(* Bounds of the model *)

MaxFeatures == 3
MaxLocations == 3
MaxStations == 2
MaxDegrees == 2

---------------------------------------------------------------------------
(* Helpers on sequences *)

Range(s) == {s[j] : j \in 1..Len(s)}

SeqsUpTo(S, n) == UNION {[1..k -> S] : k \in 0..n}

\* Python's None where a sequence is expected; like () and [] it is falsy.
None == <<>>

Truthy(x) == Len(x) > 0

---------------------------------------------------------------------------
(* load_mrt_data_from_geojson: text of a Description *)

ROW == "<th>STATION_NA</th> <td>"
TDEND == "</td>"
NEWLINE == "\n"
SPACE == " "

\* "MRT STATION" of line 41
MRT_STATION == <<"MRT", SPACE, "STATION">>

\* r"<th>STATION_NA<\/th> <td>(.*?)<\/td>": the first closing tag after
\* position p, provided no newline lies between ('.' does not match one).
RowEnd(text, p) ==
    LET ends == {j \in (p + 1)..Len(text) : text[j] = TDEND}
    IN  IF ends = {} THEN 0
        ELSE LET j == CHOOSE e \in ends : \A f \in ends : e <= f
             IN  IF \E q \in (p + 1)..(j - 1) : text[q] = NEWLINE THEN 0 ELSE j

\* re.search: the leftmost position at which the pattern matches, 0 if none
re_search(text) ==
    LET starts == {p \in 1..Len(text) : text[p] = ROW /\ RowEnd(text, p) > 0}
    IN  IF starts = {} THEN 0
        ELSE CHOOSE p \in starts : \A q \in starts : p <= q

\* match.group(1)
group1(text, p) == SubSeq(text, p + 1, RowEnd(text, p) - 1)

\* str.strip()
RECURSIVE lstrip(_)
lstrip(s) == IF s # <<>> /\ Head(s) \in {SPACE, NEWLINE} THEN lstrip(Tail(s)) ELSE s

RECURSIVE rstrip(_)
rstrip(s) ==
    IF s # <<>> /\ s[Len(s)] \in {SPACE, NEWLINE}
    THEN rstrip(SubSeq(s, 1, Len(s) - 1)) ELSE s

strip(s) == rstrip(lstrip(s))

\* the operator "in" on text
Contains(sub, s) ==
    \E p \in 1..(Len(s) - Len(sub) + 1) : SubSeq(s, p, p + Len(sub) - 1) = sub

---------------------------------------------------------------------------
(* load_mrt_data_from_geojson: the document read by json.load *)

\* A member of "features".  isObject: the feature is a JSON object.
\* properties, geometry: "absent" (no such key), "null" or "object".
\* gtype: geometry["type"].  coordinates: geometry["coordinates"], None when
\* the key is absent or null.  Description: properties["Description"], of
\* kind "absent", "text" or "number".
Feature(isObject, properties, geometry, gtype, coordinates, dkind, text) ==
    [isObject |-> isObject, properties |-> properties, geometry |-> geometry,
     gtype |-> gtype, coordinates |-> coordinates,
     Description |-> [kind |-> dkind, text |-> text]]

PointFeature(coordinates, text) ==
    Feature(TRUE, "object", "object", "Point", coordinates, "text", text)

Descriptions ==
    { <<ROW, "MRT", SPACE, "STATION", TDEND>>,
      <<"x", ROW, SPACE, "ALPHA", SPACE, "MRT", SPACE, "STATION", SPACE, TDEND, "x">>,
      <<ROW, "BUS", SPACE, "STATION", TDEND>>,
      <<ROW, "MRT", SPACE, "STATION", NEWLINE, TDEND>>,
      <<ROW, "BUS", TDEND, ROW, "MRT", SPACE, "STATION", TDEND>>,
      <<ROW, NEWLINE, ROW, "MRT", SPACE, "STATION", TDEND>>,
      <<>> }

FeatureSet ==
    \* point features with a Description, at [103.8, 1.3]
    { PointFeature(<<10380, 130>>, d) : d \in Descriptions }
    \* the same station elsewhere, with an altitude, with too few coordinates
    \cup { PointFeature(c, <<ROW, "MRT", SPACE, "STATION", TDEND>>) :
             c \in {<<10381, 131>>, <<10380, 130, 0>>, <<10380>>, <<>>} }
    \cup { \* not a point
           Feature(TRUE, "object", "object", "LineString", <<10380, 130>>,
                   "text", <<ROW, "MRT", SPACE, "STATION", TDEND>>),
           \* no geometry key, no properties key
           Feature(TRUE, "absent", "absent", "", None, "absent", <<>>),
           \* "geometry": null
           Feature(TRUE, "object", "null", "", None, "text",
                   <<ROW, "MRT", SPACE, "STATION", TDEND>>),
           \* "properties": null, on a point and on a line
           Feature(TRUE, "null", "object", "Point", <<10380, 130>>, "absent", <<>>),
           Feature(TRUE, "null", "object", "LineString", <<10380, 130>>, "absent", <<>>),
           \* "Description": 5
           Feature(TRUE, "object", "object", "Point", <<10380, 130>>, "number", <<>>),
           \* a feature that is a number
           Feature(FALSE, "absent", "absent", "", None, "absent", <<>>) }

\* What open() and json.load() find.  kind: "missing" (no such file),
\* "invalid_json" (text json.load cannot decode) or "json".  top: the type of
\* the top-level value.  features_kind: data["features"] is "absent", a
\* "list" or a "number".
Source(kind, top, features_kind, features) ==
    [kind |-> kind, top |-> top, features_kind |-> features_kind,
     features |-> features]

Sources ==
    { Source("missing", "", "", <<>>),
      Source("invalid_json", "", "", <<>>),
      Source("json", "array", "", <<>>),
      Source("json", "object", "absent", <<>>),
      Source("json", "object", "number", <<>>) }
    \cup { Source("json", "object", "list", fs) : fs \in SeqsUpTo(FeatureSet, MaxFeatures) }

---------------------------------------------------------------------------
(* load_mrt_data_from_geojson: one feature (lines 23-45) *)

\* feature.get on a value that is no dict (line 24)
FeatureNotObject(f) == ~f.isObject

\* geometry.get on None (line 28)
GeometryIsNone(f) == f.geometry = "null"

\* geometry.get('coordinates') (line 28)
coordinates_of(f) == IF f.geometry = "object" THEN f.coordinates ELSE None

\* geometry.get('type') (line 29)
type_of(f) == IF f.geometry = "object" THEN f.gtype ELSE ""

\* the condition of line 29
NotAPoint(f) == ~Truthy(coordinates_of(f)) \/ type_of(f) # "Point"

\* coordinates[1] on a list of one element (line 33)
CoordinatesTooShort(f) == Len(coordinates_of(f)) < 2

\* properties.get on None (line 36)
PropertiesIsNone(f) == f.properties = "null"

\* properties.get('Description', '') (line 36)
description_html(f) ==
    IF f.properties = "object" /\ f.Description.kind # "absent"
    THEN f.Description
    ELSE [kind |-> "text", text |-> <<>>]

\* re.search on a value that is no text (line 37)
DescriptionNotText(f) == description_html(f).kind # "text"

\* an exception of the try block of lines 24-42
FeatureRaises(f) ==
    \/ FeatureNotObject(f)
    \/ GeometryIsNone(f)
    \/ ~NotAPoint(f) /\ CoordinatesTooShort(f)
    \/ ~NotAPoint(f) /\ PropertiesIsNone(f)
    \/ ~NotAPoint(f) /\ DescriptionNotText(f)

\* match (line 37) and station_name (line 40)
match(f) == re_search(description_html(f).text)

station_name(f) == strip(group1(description_html(f).text, match(f)))

\* the tests of lines 39 and 41
IsMrtStation(f) == match(f) > 0 /\ Contains(MRT_STATION, station_name(f))

\* (station_name, (lat, lon)) with lon = coordinates[0], lat = coordinates[1]
\* (lines 32, 33, 42)
StationRecordNoSwap(f) ==
    [name |-> station_name(f),
     coords |-> <<coordinates_of(f)[1], coordinates_of(f)[2]>>]

StationRecord(f) ==
    [name |-> station_name(f),
     coords |-> <<coordinates_of(f)[2], coordinates_of(f)[1]>>]

\* where the loop goes after the except clause of line 44: the try is inside
\* the loop, so to the next feature
AfterFeatureErrorAbort(idx, n) == n + 1

AfterFeatureError(idx, n) == idx + 1

---------------------------------------------------------------------------
(* load_mrt_data_from_geojson: the function *)

LoadIdle ==
    /\ source = Source("json", "object", "absent", <<>>)
    /\ feature_idx = 0
    /\ mrt_exits = <<>>
    /\ skip_log = <<>>
    /\ load_result = <<>>
    /\ load_exception = ""
    /\ pcLoad = "idle"

LoadStart ==
    /\ source \in Sources
    /\ feature_idx = 0
    /\ mrt_exits = <<>>
    /\ skip_log = <<>>
    /\ load_result = <<>>
    /\ load_exception = ""
    /\ pcLoad = "open"

\* lines 18, 47-50
LoadFileNotFound ==
    /\ pcLoad = "open"
    /\ source.kind = "missing"
    /\ load_result' = <<>>
    /\ pcLoad' = "returned"
    /\ UNCHANGED <<source, feature_idx, mrt_exits, skip_log, load_exception>>
    /\ UNCHANGED <<mapVars, dmsVars>>

\* lines 19, 51-53
LoadJSONDecodeError ==
    /\ pcLoad = "open"
    /\ source.kind = "invalid_json"
    /\ load_result' = <<>>
    /\ pcLoad' = "returned"
    /\ UNCHANGED <<source, feature_idx, mrt_exits, skip_log, load_exception>>
    /\ UNCHANGED <<mapVars, dmsVars>>

\* line 22: data.get on a top-level value that is no dict.  AttributeError is
\* neither FileNotFoundError nor JSONDecodeError: it leaves the function.
LoadTopLevelNotObject ==
    /\ pcLoad = "open"
    /\ source.kind = "json"
    /\ source.top # "object"
    /\ load_exception' = "AttributeError"
    /\ pcLoad' = "raised"
    /\ UNCHANGED <<source, feature_idx, mrt_exits, skip_log, load_result>>
    /\ UNCHANGED <<mapVars, dmsVars>>

\* line 22: iterating data['features'] when it is a number.  TypeError leaves
\* the function.
LoadFeaturesNotIterable ==
    /\ pcLoad = "open"
    /\ source.kind = "json"
    /\ source.top = "object"
    /\ source.features_kind = "number"
    /\ load_exception' = "TypeError"
    /\ pcLoad' = "raised"
    /\ UNCHANGED <<source, feature_idx, mrt_exits, skip_log, load_result>>
    /\ UNCHANGED <<mapVars, dmsVars>>

\* line 22: the loop begins (data.get('features', []))
LoadEnterLoop ==
    /\ pcLoad = "open"
    /\ source.kind = "json"
    /\ source.top = "object"
    /\ source.features_kind \in {"absent", "list"}
    /\ feature_idx' = 1
    /\ pcLoad' = "loop"
    /\ UNCHANGED <<source, mrt_exits, skip_log, load_result, load_exception>>
    /\ UNCHANGED <<mapVars, dmsVars>>

InLoop ==
    /\ pcLoad = "loop"
    /\ feature_idx <= Len(source.features)

\* lines 44-45: the feature raised; it is reported and the loop goes on
FeatureParseError ==
    /\ InLoop
    /\ FeatureRaises(source.features[feature_idx])
    /\ skip_log' = Append(skip_log, feature_idx)
    /\ feature_idx' = AfterFeatureError(feature_idx, Len(source.features))
    /\ UNCHANGED <<source, mrt_exits, load_result, load_exception, pcLoad>>
    /\ UNCHANGED <<mapVars, dmsVars>>

\* lines 29-30: continue
FeatureNotPoint ==
    /\ InLoop
    /\ ~FeatureRaises(source.features[feature_idx])
    /\ NotAPoint(source.features[feature_idx])
    /\ feature_idx' = feature_idx + 1
    /\ UNCHANGED <<source, mrt_exits, skip_log, load_result, load_exception, pcLoad>>
    /\ UNCHANGED <<mapVars, dmsVars>>

\* lines 39, 41: no match, or a name without "MRT STATION"
FeatureNotStation ==
    /\ InLoop
    /\ ~FeatureRaises(source.features[feature_idx])
    /\ ~NotAPoint(source.features[feature_idx])
    /\ ~IsMrtStation(source.features[feature_idx])
    /\ feature_idx' = feature_idx + 1
    /\ UNCHANGED <<source, mrt_exits, skip_log, load_result, load_exception, pcLoad>>
    /\ UNCHANGED <<mapVars, dmsVars>>

\* line 42
FeatureAppend ==
    /\ InLoop
    /\ ~FeatureRaises(source.features[feature_idx])
    /\ ~NotAPoint(source.features[feature_idx])
    /\ IsMrtStation(source.features[feature_idx])
    /\ mrt_exits' = Append(mrt_exits, StationRecord(source.features[feature_idx]))
    /\ feature_idx' = feature_idx + 1
    /\ UNCHANGED <<source, skip_log, load_result, load_exception, pcLoad>>
    /\ UNCHANGED <<mapVars, dmsVars>>

\* line 54
LoadReturn ==
    /\ pcLoad = "loop"
    /\ feature_idx > Len(source.features)
    /\ load_result' = mrt_exits
    /\ pcLoad' = "returned"
    /\ UNCHANGED <<source, feature_idx, mrt_exits, skip_log, load_exception>>
    /\ UNCHANGED <<mapVars, dmsVars>>

NextLoad ==
    \/ LoadFileNotFound
    \/ LoadJSONDecodeError
    \/ LoadTopLevelNotObject
    \/ LoadFeaturesNotIterable
    \/ LoadEnterLoop
    \/ FeatureParseError
    \/ FeatureNotPoint
    \/ FeatureNotStation
    \/ FeatureAppend
    \/ LoadReturn

---------------------------------------------------------------------------
(* get_interactive_map_and_mrt_geojson: numbers *)

RECURSIVE gcd(_, _)
gcd(a, b) == IF b = 0 THEN a ELSE gcd(b, a % b)

Abs(a) == IF a < 0 THEN -a ELSE a

\* the point (lat / den, lon / den), in lowest terms
Point(lat, lon, den) ==
    LET g == gcd(gcd(Abs(lat), Abs(lon)), den)
    IN  [lat |-> lat \div g, lon |-> lon \div g, den |-> den \div g]

\* a (lat, lon) tuple of the caller as a point
PointOf(coords) == Point(coords[1], coords[2], 1)

\* sum() of line 76
RECURSIVE sum(_)
sum(xs) == IF xs = <<>> THEN 0 ELSE Head(xs) + sum(Tail(xs))

\* the largest r in lo..hi with r * r <= n
RECURSIVE SqrtBetween(_, _, _)
SqrtBetween(n, lo, hi) ==
    IF lo = hi THEN lo
    ELSE LET mid == (lo + hi + 1) \div 2
         IN  IF mid * mid <= n THEN SqrtBetween(n, mid, hi)
             ELSE SqrtBetween(n, lo, mid - 1)

ISqrt(n) == SqrtBetween(n, 0, 46340)

\* float('inf') of line 80
Infinity == 2147483647

\* metres in a hundredth of a degree of a great circle
MetresPerUnit == 1112

\* haversine(center_point, station_coords, unit=Unit.KILOMETERS) of line 84,
\* in metres.  The library function is not part of the repository: the model
\* takes the great-circle distance at the small angles and low latitudes of
\* its inputs, where it is the length of (dlat, dlon): 22.24 km for 0.2
\* degrees of longitude at latitude 1.0, as the library gives.  Like the
\* library's it is the same for +dlon and -dlon, so two stations at one
\* latitude, east and west of the center, are equally far.
haversine(p, q) ==
    LET dlat == p.lat - q[1] * p.den
        dlon == p.lon - q[2] * p.den
    IN  (ISqrt(100 * (dlat * dlat + dlon * dlon)) * MetresPerUnit) \div (10 * p.den)

\* "{min_distance:.2f}" of line 90: hundredths of a kilometre, rounded
Format2f(metres) == IF metres = Infinity THEN Infinity ELSE (metres + 5) \div 10

---------------------------------------------------------------------------
(* get_interactive_map_and_mrt_geojson: arguments and values *)

\* a location of the caller: (lat, lon), or a tuple of one element
LocationSet == { <<100, 10300>>, <<120, 10320>>, <<100, 10320>>, <<100>> }

\* a catalog entry: (name, (lat, lon)), or one whose tuple has one element
StationSet ==
    { [name |-> "ALPHA MRT STATION", coords |-> <<100, 10320>>],
      [name |-> "BETA MRT STATION", coords |-> <<100, 10280>>],
      [name |-> "GAMMA MRT STATION", coords |-> <<130, 10380>>],
      [name |-> "DELTA MRT STATION", coords |-> <<100>>] }

\* None in place of the map
NoMap == [kind |-> "None"]

\* line 69
NoLocationsResult ==
    [text |-> [text |-> "Error: No locations provided."], map |-> NoMap]

\* line 71
NoCatalogResultSameText ==
    [text |-> [text |-> "Error: No locations provided."], map |-> NoMap]

NoCatalogResult ==
    [text |-> [text |-> "Error: No MRT data provided or loaded."], map |-> NoMap]

\* nothing returned yet
NoResult == [text |-> [text |-> ""], map |-> NoMap]

\* the comprehensions of lines 74-75
lats(locs) == [j \in 1..Len(locs) |-> locs[j][1]]

lons(locs) == [j \in 1..Len(locs) |-> locs[j][2]]

\* loc[1] on a tuple of one element (line 75)
LocationTooShort(loc) == Len(loc) < 2

\* line 76
CenterOfFirst(locs) == PointOf(locs[1])

Center(locs) == Point(sum(lats(locs)), sum(lons(locs)), Len(locs))

\* the comparison of line 85
IsCloserOrEqual(distance, min) == distance <= min

IsCloser(distance, min) == distance < min

\* line 90
Summary(name, distance) ==
    [text |-> "The nearest MRT station is: {} (distance: {} km)",
     name |-> name, distance |-> Format2f(distance)]

\* folium.Map(location=center_point, zoom_start=14) (line 93)
folium_Map(center) ==
    [kind |-> "Map", location |-> center, zoom_start |-> 14,
     polygons |-> <<>>, markers |-> <<>>]

\* the condition of line 96
NeedsPolygonAbove3(locs) == Len(locs) > 3

NeedsPolygon(locs) == Len(locs) >= 3

\* folium.Polygon(...) of lines 97-104
Polygon(locs) ==
    [locations |-> locs, popup |-> "Input Area", color |-> "#3186cc",
     fill |-> TRUE, fill_color |-> "#3186cc", fill_opacity |-> "0.2"]

\* folium.Marker(...) of lines 109-113
InputMarker(loc) ==
    [location |-> PointOf(loc), popup |-> <<"Input Location">>,
     color |-> "blue", icon |-> "info-sign"]

\* the loop of lines 108-113
InputMarkersDistinct(locs) ==
    [j \in 1..Cardinality(Range(locs)) |->
        InputMarker(locs[CHOOSE k \in 1..Len(locs) :
            Cardinality({locs[h] : h \in 1..k}) = j
            /\ \A h \in 1..(k - 1) : locs[h] # locs[k]])]

InputMarkers(locs) == [j \in 1..Len(locs) |-> InputMarker(locs[j])]

\* lines 116-120
CenterMarker(center) ==
    [location |-> center, popup |-> <<"Center Point">>,
     color |-> "green", icon |-> "star"]

\* lines 124-128
StationMarker(name, coords) ==
    [location |-> PointOf(coords), popup |-> <<"Nearest MRT: ", name>>,
     color |-> "red", icon |-> "train"]

---------------------------------------------------------------------------
(* get_interactive_map_and_mrt_geojson: the function *)

MapIdle ==
    /\ locations = <<>>
    /\ mrt_exits_list = <<>>
    /\ center_point = Point(0, 0, 1)
    /\ station_idx = 0
    /\ min_distance = Infinity
    /\ nearest_station_name = "Unknown"
    /\ nearest_station_coords = None
    /\ result_string = [text |-> ""]
    /\ m = NoMap
    /\ map_result = NoResult
    /\ map_exception = ""
    /\ pcMap = "idle"

MapStart ==
    /\ locations \in SeqsUpTo(LocationSet, MaxLocations)
    /\ mrt_exits_list \in SeqsUpTo(StationSet, MaxStations)
    /\ center_point = Point(0, 0, 1)
    /\ station_idx = 0
    /\ min_distance = Infinity
    /\ nearest_station_name = "Unknown"
    /\ nearest_station_coords = None
    /\ result_string = [text |-> ""]
    /\ m = NoMap
    /\ map_result = NoResult
    /\ map_exception = ""
    /\ pcMap = "start"

\* lines 68-69
MapNoLocations ==
    /\ pcMap = "start"
    /\ ~Truthy(locations)
    /\ map_result' = NoLocationsResult
    /\ pcMap' = "returned"
    /\ UNCHANGED <<locations, mrt_exits_list, center_point, station_idx,
                   min_distance, nearest_station_name, nearest_station_coords,
                   result_string, m, map_exception>>
    /\ UNCHANGED <<loadVars, dmsVars>>

\* lines 70-71
MapNoCatalog ==
    /\ pcMap = "start"
    /\ Truthy(locations)
    /\ ~Truthy(mrt_exits_list)
    /\ map_result' = NoCatalogResult
    /\ pcMap' = "returned"
    /\ UNCHANGED <<locations, mrt_exits_list, center_point, station_idx,
                   min_distance, nearest_station_name, nearest_station_coords,
                   result_string, m, map_exception>>
    /\ UNCHANGED <<loadVars, dmsVars>>

\* line 75: loc[1] raises IndexError, which nothing catches
MapLocationFault ==
    /\ pcMap = "start"
    /\ Truthy(locations)
    /\ Truthy(mrt_exits_list)
    /\ \E j \in 1..Len(locations) : LocationTooShort(locations[j])
    /\ map_exception' = "IndexError"
    /\ pcMap' = "raised"
    /\ UNCHANGED <<locations, mrt_exits_list, center_point, station_idx,
                   min_distance, nearest_station_name, nearest_station_coords,
                   result_string, m, map_result>>
    /\ UNCHANGED <<loadVars, dmsVars>>

\* lines 74-81
MapCenter ==
    /\ pcMap = "start"
    /\ Truthy(locations)
    /\ Truthy(mrt_exits_list)
    /\ \A j \in 1..Len(locations) : ~LocationTooShort(locations[j])
    /\ center_point' = Center(locations)
    /\ nearest_station_name' = "Unknown"
    /\ min_distance' = Infinity
    /\ nearest_station_coords' = None
    /\ station_idx' = 1
    /\ pcMap' = "scan"
    /\ UNCHANGED <<locations, mrt_exits_list, result_string, m, map_result,
                   map_exception>>
    /\ UNCHANGED <<loadVars, dmsVars>>

InScan ==
    /\ pcMap = "scan"
    /\ station_idx <= Len(mrt_exits_list)

\* line 84: haversine unpacks a tuple of one element and raises ValueError,
\* which nothing catches
ScanStationFault ==
    /\ InScan
    /\ Len(mrt_exits_list[station_idx].coords) < 2
    /\ map_exception' = "ValueError"
    /\ pcMap' = "raised"
    /\ UNCHANGED <<locations, mrt_exits_list, center_point, station_idx,
                   min_distance, nearest_station_name, nearest_station_coords,
                   result_string, m, map_result>>
    /\ UNCHANGED <<loadVars, dmsVars>>

\* lines 83-88, one station
ScanStation ==
    /\ InScan
    /\ Len(mrt_exits_list[station_idx].coords) >= 2
    /\ LET station == mrt_exits_list[station_idx]
           distance == haversine(center_point, station.coords)
       IN  IF IsCloser(distance, min_distance)
           THEN /\ min_distance' = distance
                /\ nearest_station_name' = station.name
                /\ nearest_station_coords' = station.coords
           ELSE UNCHANGED <<min_distance, nearest_station_name,
                            nearest_station_coords>>
    /\ station_idx' = station_idx + 1
    /\ UNCHANGED <<locations, mrt_exits_list, center_point, result_string, m,
                   map_result, map_exception, pcMap>>
    /\ UNCHANGED <<loadVars, dmsVars>>

\* line 90
MapSummary ==
    /\ pcMap = "scan"
    /\ station_idx > Len(mrt_exits_list)
    /\ result_string' = Summary(nearest_station_name, min_distance)
    /\ pcMap' = "map"
    /\ UNCHANGED <<locations, mrt_exits_list, center_point, station_idx,
                   min_distance, nearest_station_name, nearest_station_coords,
                   m, map_result, map_exception>>
    /\ UNCHANGED <<loadVars, dmsVars>>

\* line 93
MapCreate ==
    /\ pcMap = "map"
    /\ m' = folium_Map(center_point)
    /\ pcMap' = "polygon"
    /\ UNCHANGED <<locations, mrt_exits_list, center_point, station_idx,
                   min_distance, nearest_station_name, nearest_station_coords,
                   result_string, map_result, map_exception>>
    /\ UNCHANGED <<loadVars, dmsVars>>

\* lines 96-104
MapPolygon ==
    /\ pcMap = "polygon"
    /\ m' = IF NeedsPolygon(locations)
            THEN [m EXCEPT !.polygons = Append(@, Polygon(locations))]
            ELSE m
    /\ pcMap' = "markers"
    /\ UNCHANGED <<locations, mrt_exits_list, center_point, station_idx,
                   min_distance, nearest_station_name, nearest_station_coords,
                   result_string, map_result, map_exception>>
    /\ UNCHANGED <<loadVars, dmsVars>>

\* lines 108-113
MapInputMarkers ==
    /\ pcMap = "markers"
    /\ m' = [m EXCEPT !.markers = @ \o InputMarkers(locations)]
    /\ pcMap' = "center"
    /\ UNCHANGED <<locations, mrt_exits_list, center_point, station_idx,
                   min_distance, nearest_station_name, nearest_station_coords,
                   result_string, map_result, map_exception>>
    /\ UNCHANGED <<loadVars, dmsVars>>

\* lines 116-120
MapCenterMarker ==
    /\ pcMap = "center"
    /\ m' = [m EXCEPT !.markers = Append(@, CenterMarker(center_point))]
    /\ pcMap' = "station"
    /\ UNCHANGED <<locations, mrt_exits_list, center_point, station_idx,
                   min_distance, nearest_station_name, nearest_station_coords,
                   result_string, map_result, map_exception>>
    /\ UNCHANGED <<loadVars, dmsVars>>

\* lines 123-128
MapStationMarker ==
    /\ pcMap = "station"
    /\ m' = IF Truthy(nearest_station_coords)
            THEN [m EXCEPT !.markers =
                     Append(@, StationMarker(nearest_station_name,
                                             nearest_station_coords))]
            ELSE m
    /\ pcMap' = "return"
    /\ UNCHANGED <<locations, mrt_exits_list, center_point, station_idx,
                   min_distance, nearest_station_name, nearest_station_coords,
                   result_string, map_result, map_exception>>
    /\ UNCHANGED <<loadVars, dmsVars>>

\* line 131
MapReturn ==
    /\ pcMap = "return"
    /\ map_result' = [text |-> result_string, map |-> m]
    /\ pcMap' = "returned"
    /\ UNCHANGED <<locations, mrt_exits_list, center_point, station_idx,
                   min_distance, nearest_station_name, nearest_station_coords,
                   result_string, m, map_exception>>
    /\ UNCHANGED <<loadVars, dmsVars>>

NextMap ==
    \/ MapNoLocations
    \/ MapNoCatalog
    \/ MapLocationFault
    \/ MapCenter
    \/ ScanStationFault
    \/ ScanStation
    \/ MapSummary
    \/ MapCreate
    \/ MapPolygon
    \/ MapInputMarkers
    \/ MapCenterMarker
    \/ MapStationMarker
    \/ MapReturn

---------------------------------------------------------------------------
(* dms_to_dd *)

\* the arguments: degrees, minutes, seconds (no range is checked) and a
\* direction
Directions == {"N", "S", "E", "W", "n", "s", "e", "w", "x", ""}

DmsArguments ==
    [degrees : -1..MaxDegrees, minutes : {0, 30, 75}, seconds : {-30, 0, 30},
     direction : Directions]

\* line 138, in arc-seconds:
\* 3600 * (degrees + minutes / 60 + seconds / 3600)
Formula(degrees, minutes, seconds) == 3600 * degrees + 60 * minutes + seconds

\* the test of line 141
IsSouthOrWestUpper(direction) == direction \in {"S", "W"}

IsSouthOrWest(direction) == direction \in {"S", "W", "s", "w"}

DmsIdle ==
    /\ dms = [degrees |-> 0, minutes |-> 0, seconds |-> 0, direction |-> ""]
    /\ decimal_degrees = 0
    /\ dms_result = 0
    /\ pcDms = "idle"

DmsStart ==
    /\ dms \in DmsArguments
    /\ decimal_degrees = 0
    /\ dms_result = 0
    /\ pcDms = "start"

\* line 138
DmsFormula ==
    /\ pcDms = "start"
    /\ decimal_degrees' = Formula(dms.degrees, dms.minutes, dms.seconds)
    /\ pcDms' = "sign"
    /\ UNCHANGED <<dms, dms_result>>
    /\ UNCHANGED <<loadVars, mapVars>>

\* lines 141-142
DmsNegate ==
    /\ pcDms = "sign"
    /\ IsSouthOrWest(dms.direction)
    /\ decimal_degrees' = -decimal_degrees
    /\ pcDms' = "return"
    /\ UNCHANGED <<dms, dms_result>>
    /\ UNCHANGED <<loadVars, mapVars>>

\* line 141, the test fails
DmsKeep ==
    /\ pcDms = "sign"
    /\ ~IsSouthOrWest(dms.direction)
    /\ pcDms' = "return"
    /\ UNCHANGED <<dms, decimal_degrees, dms_result>>
    /\ UNCHANGED <<loadVars, mapVars>>

\* line 144
DmsReturn ==
    /\ pcDms = "return"
    /\ dms_result' = decimal_degrees
    /\ pcDms' = "returned"
    /\ UNCHANGED <<dms, decimal_degrees>>
    /\ UNCHANGED <<loadVars, mapVars>>

NextDms ==
    \/ DmsFormula
    \/ DmsNegate
    \/ DmsKeep
    \/ DmsReturn

---------------------------------------------------------------------------
(* Specifications: one call of each function, and one call of any *)

InitLoad == LoadStart /\ MapIdle /\ DmsIdle

InitMap == LoadIdle /\ MapStart /\ DmsIdle

InitDms == LoadIdle /\ MapIdle /\ DmsStart

Init == InitLoad \/ InitMap \/ InitDms

Next == NextLoad \/ NextMap \/ NextDms

SpecLoad == InitLoad /\ [][NextLoad]_vars

SpecMap == InitMap /\ [][NextMap]_vars

SpecDms == InitDms /\ [][NextDms]_vars

Spec == Init /\ [][Next]_vars

---------------------------------------------------------------------------
(* Properties of load_mrt_data_from_geojson, under SpecLoad *)

\* the loop of lines 22-45 as a function of the list of features
RECURSIVE Extracted(_)
Extracted(fs) ==
    IF fs = <<>> THEN <<>>
    ELSE (IF ~FeatureRaises(Head(fs)) /\ ~NotAPoint(Head(fs)) /\ IsMrtStation(Head(fs))
          THEN <<StationRecord(Head(fs))>> ELSE <<>>) \o Extracted(Tail(fs))

LoadedFeatures ==
    /\ source.kind = "json"
    /\ source.top = "object"
    /\ source.features_kind \in {"absent", "list"}

\* A well-formed feature: an object whose geometry, when it has one, holds at
\* least two coordinates, and whose Description, when it has one, is text.
C3_WellFormedFeature(f) ==
    /\ f.isObject
    /\ f.geometry = "object" => Len(f.coordinates) >= 2
    /\ f.properties = "object" => f.Description.kind \in {"absent", "text"}

\* The feature is a station: a Point whose Description holds the STATION_NA
\* row (as the pattern of line 37 finds it: header, name and closing tag on
\* one line) and whose extracted name contains "MRT STATION".
C3_IsStation(f) ==
    /\ f.geometry = "object" /\ f.gtype = "Point"
    /\ f.properties = "object" /\ f.Description.kind = "text"
    /\ re_search(f.Description.text) > 0
    /\ Contains(MRT_STATION,
                group1(f.Description.text, re_search(f.Description.text)))

C3_Emitted(f) ==
    [name |-> strip(group1(f.Description.text, re_search(f.Description.text))),
     coords |-> <<f.coordinates[2], f.coordinates[1]>>]

C3_Expected(fs) ==
    LET stations == SelectSeq(fs, C3_IsStation)
    IN  [j \in 1..Len(stations) |-> C3_Emitted(stations[j])]

\* C3: for a well-formed feature collection the loader returns, in file order
\* and with duplicates kept, (trimmed name, (coordinates[1], coordinates[0]))
\* of every Point feature whose Description holds the STATION_NA row with a
\* name containing "MRT STATION"; the result is no longer than the feature
\* list, every returned name contains "MRT STATION", and [103.8, 1.3]
\* becomes (1.3, 103.8).
C3_LoadReturnsStationsInOrder ==
    (/\ LoadedFeatures
     /\ \A j \in 1..Len(source.features) : C3_WellFormedFeature(source.features[j]))
    => /\ pcLoad # "raised"
       /\ pcLoad = "returned"
          => /\ load_result = C3_Expected(source.features)
             /\ Len(load_result) <= Len(source.features)
             /\ \A j \in 1..Len(load_result) :
                  /\ Contains(MRT_STATION, load_result[j].name)
                  /\ load_result[j].coords \in {<<130, 10380>>, <<131, 10381>>}

\* C3 witness: a returned load of three well-formed features, the same station
\* twice around a feature that is no station.
C3_Witness ==
    /\ pcLoad = "returned"
    /\ LoadedFeatures
    /\ Len(source.features) = 3
    /\ \A j \in 1..3 : C3_WellFormedFeature(source.features[j])
    /\ source.features[1] = source.features[3]
    /\ ~C3_IsStation(source.features[2])
    /\ Len(load_result) = 2
    /\ load_result[1] = load_result[2]
    /\ load_result[1] = [name |-> <<"ALPHA", SPACE, "MRT", SPACE, "STATION">>,
                         coords |-> <<130, 10380>>]

\* C4: a missing file or a malformed top-level structure (text that is no
\* JSON, a top-level value that is no object, a "features" member that is no
\* list) gives an empty result, and no exception leaves the function.
C4_MalformedSourceGivesEmptyResult ==
    (\/ source.kind \in {"missing", "invalid_json"}
     \/ source.kind = "json" /\ source.top # "object"
     \/ source.kind = "json" /\ source.top = "object"
        /\ source.features_kind = "number")
    => /\ pcLoad # "raised"
       /\ load_exception = ""
       /\ pcLoad = "returned" => load_result = <<>>

\* The feature is one whose processing fails: not an object, a null geometry
\* or properties, fewer than two coordinates, a Description that is no text.
C5_FailingFeature(f) ==
    \/ ~f.isObject
    \/ f.geometry = "null"
    \/ f.properties = "null"
    \/ f.geometry = "object" /\ Len(f.coordinates) < 2
    \/ f.Description.kind = "number"

C5_Without(fs, k) == SubSeq(fs, 1, k - 1) \o SubSeq(fs, k + 1, Len(fs))

\* C5: a feature whose processing fails is skipped without aborting the load:
\* the load returns, every feature was visited, and the result is the result
\* for the same collection without the failing feature.
C5_FailingFeatureIsSkipped ==
    /\ LoadedFeatures => pcLoad # "raised"
    /\ (pcLoad = "returned" /\ LoadedFeatures)
       => /\ feature_idx = Len(source.features) + 1
          /\ \A k \in 1..Len(source.features) :
               C5_FailingFeature(source.features[k])
               => load_result = Extracted(C5_Without(source.features, k))

\* C5 witness: a returned load of three features whose second raised and was
\* reported, with a station before it and a station after it in the result.
C5_Witness ==
    /\ pcLoad = "returned"
    /\ LoadedFeatures
    /\ Len(source.features) = 3
    /\ C5_FailingFeature(source.features[2])
    /\ skip_log = <<2>>
    /\ Len(load_result) = 2
    /\ load_result[1].coords # load_result[2].coords

---------------------------------------------------------------------------
(* Properties of get_interactive_map_and_mrt_geojson, under SpecMap *)

\* the call returned a map
MapReturned == pcMap = "returned" /\ map_result.map # NoMap

\* the distance from the centroid to the j-th station of the catalog
C1_Distance(j) == haversine(center_point, mrt_exits_list[j].coords)

\* the smallest index of a station at the minimal distance
C1_FirstNearest ==
    CHOOSE j \in 1..Len(mrt_exits_list) :
        /\ \A h \in 1..Len(mrt_exits_list) : C1_Distance(j) <= C1_Distance(h)
        /\ \A h \in 1..(j - 1) : C1_Distance(h) > C1_Distance(j)

\* the arguments are non-empty sequences of (lat, lon) tuples and of
\* (name, (lat, lon)) entries
C1_WellFormedArguments ==
    /\ locations # <<>>
    /\ mrt_exits_list # <<>>
    /\ \A j \in 1..Len(locations) : Len(locations[j]) = 2
    /\ \A j \in 1..Len(mrt_exits_list) : Len(mrt_exits_list[j].coords) = 2

\* C1: for non-empty locations and a non-empty catalog the call raises
\* nothing and returns a map, and the summary names the station at the smallest catalog
\* index whose distance from the centroid is minimal: a later station at an
\* equal distance never replaces it, and the reported distance is that
\* minimum.
C1_NearestIsFirstMinimum ==
    /\ C1_WellFormedArguments
       => /\ pcMap # "raised"
          /\ pcMap = "returned" => map_result.map # NoMap
    /\ MapReturned
       => /\ map_result.text.name = mrt_exits_list[C1_FirstNearest].name
          /\ nearest_station_coords = mrt_exits_list[C1_FirstNearest].coords
          /\ map_result.text.distance = Format2f(C1_Distance(C1_FirstNearest))
          /\ min_distance = C1_Distance(C1_FirstNearest)

\* C1 witness: a returned call whose catalog holds two different stations at
\* the same, minimal, distance (one latitude, 0.2 degrees east and west of the
\* centroid); the first is named, at 22.24 km.
C1_Witness ==
    /\ MapReturned
    /\ locations = << <<100, 10300>> >>
    /\ Len(mrt_exits_list) = 2
    /\ mrt_exits_list[1].coords = <<100, 10280>>
    /\ mrt_exits_list[2].coords = <<100, 10320>>
    /\ C1_Distance(1) = C1_Distance(2)
    /\ map_result.text.name = mrt_exits_list[1].name
    /\ map_result.text.distance = 2224

\* C2: an empty location sequence gives an error text and no map for any
\* catalog; a non-empty location sequence with an empty catalog gives another
\* error text and no map; a map is returned only when both are non-empty.
C2_EmptyArgumentsGiveDistinctErrors ==
    pcMap = "returned"
    => /\ locations = <<>>
          => /\ map_result.map = [kind |-> "None"]
             /\ map_result.text = [text |-> "Error: No locations provided."]
       /\ (locations # <<>> /\ mrt_exits_list = <<>>)
          => /\ map_result.map = [kind |-> "None"]
             /\ map_result.text = [text |-> "Error: No MRT data provided or loaded."]
             /\ map_result.text # [text |-> "Error: No locations provided."]
       /\ map_result.map # [kind |-> "None"]
          => locations # <<>> /\ mrt_exits_list # <<>>

\* C2 witness: a call with locations and an empty catalog has returned.
C2_Witness ==
    /\ pcMap = "returned"
    /\ locations # <<>>
    /\ mrt_exits_list = <<>>
    /\ map_result = NoCatalogResult

\* C6: no exception leaves get_interactive_map_and_mrt_geojson, whatever the
\* arguments: a malformed location or catalog entry gives a descriptive
\* return value.
C6_NoExceptionLeavesTheLocator ==
    /\ pcMap # "raised"
    /\ map_exception = ""

\* the j-th prefix sum of a sequence of numbers, from its end
RECURSIVE C7_Total(_, _)
C7_Total(xs, k) == IF k = 0 THEN 0 ELSE xs[k] + C7_Total(xs, k - 1)

C7_Permutations(n) ==
    {p \in [1..n -> 1..n] : \A a, b \in 1..n : p[a] = p[b] => a = b}

C8_PolygonIffThreeLocations ==
    MapReturned
    => LET polygons == map_result.map.polygons
       IN  /\ Len(locations) >= 3 => Len(polygons) = 1
           /\ Len(locations) < 3 => Len(polygons) = 0
           /\ \A j \in 1..Len(polygons) : polygons[j].locations = locations

\* C8 witness: a returned map for three locations, with its polygon.
C8_Witness ==
    /\ MapReturned
    /\ Len(locations) = 3
    /\ Len(map_result.map.polygons) = 1
    /\ map_result.map.polygons[1].locations = locations

\* C10: a returned map for n input locations carries exactly n + 2 markers:
\* one input marker at each input location, in input order and with
\* duplicates, one center marker at the centroid and one station marker at
\* the coordinate of the station named in the summary.
C10_MarkersAreInputsCenterStation ==
    MapReturned
    => LET n == Len(locations)
           markers == map_result.map.markers
       IN  /\ Len(markers) = n + 2
           /\ \A j \in 1..n :
                /\ markers[j].popup = <<"Input Location">>
                /\ markers[j].location =
                     [lat |-> locations[j][1], lon |-> locations[j][2], den |-> 1]
           /\ markers[n + 1].popup = <<"Center Point">>
           /\ markers[n + 1].location = map_result.map.location
           /\ markers[n + 2].popup = <<"Nearest MRT: ", map_result.text.name>>
           /\ \E j \in 1..Len(mrt_exits_list) :
                /\ mrt_exits_list[j].name = map_result.text.name
                /\ markers[n + 2].location =
                     [lat |-> mrt_exits_list[j].coords[1],
                      lon |-> mrt_exits_list[j].coords[2], den |-> 1]

\* C10 witness: a returned map for three locations, two of them equal, with
\* its five markers.
C10_Witness ==
    /\ MapReturned
    /\ Len(locations) = 3
    /\ locations[1] = locations[3]
    /\ locations[1] # locations[2]
    /\ Len(map_result.map.markers) = 5
    /\ map_result.map.markers[5].color = "red"

---------------------------------------------------------------------------
(* Properties of dms_to_dd, under SpecDms *)

\* C9: dms_to_dd returns -(d + m/60 + s/3600) for the directions S, W, s, w
\* and d + m/60 + s/3600 for every other direction, rejects no range, and for
\* non-negative d, m, s the result is non-positive for the former and
\* non-negative for the latter; (1, 30, 0) gives 1.5 for N and x, -1.5 for S.
C9_SignFollowsDirection ==
    pcDms = "returned"
    => LET value == 3600 * dms.degrees + 60 * dms.minutes + dms.seconds
           southOrWest == dms.direction \in {"S", "W", "s", "w"}
       IN  /\ southOrWest => dms_result = -value
           /\ ~southOrWest => dms_result = value
           /\ (dms.degrees >= 0 /\ dms.minutes >= 0 /\ dms.seconds >= 0)
              => /\ southOrWest => dms_result <= 0
                 /\ ~southOrWest => dms_result >= 0
           /\ (dms.degrees = 1 /\ dms.minutes = 30 /\ dms.seconds = 0)
              => /\ dms.direction \in {"N", "x"} => dms_result = 5400
                 /\ dms.direction = "S" => dms_result = -5400

\* C9 witness: dms_to_dd(1, 30, 0, 'w') has returned -1.5.
C9_Witness ==
    /\ pcDms = "returned"
    /\ dms = [degrees |-> 1, minutes |-> 30, seconds |-> 0, direction |-> "w"]
    /\ dms_result = -5400

============================================================================
